---- MODULE Spec2Model ----
(***************************************************************************)
(* A model of the fectl process supervisor core.                           *)
(*                                                                         *)
(* Part I: the Command Center of src/src/cmd.rs.  The CommandCenter struct *)
(* is the variables state, stop, stop_waiters, services and cmd_rx (the    *)
(* receiving end of tx).  The Service Manager (service.rs) is not part of  *)
(* the sources at hand: it is modelled by its service-level state, with    *)
(* the results of its methods taken from the specification (the Srv...     *)
(* operators).  Everything observable from outside is recorded in          *)
(* history variables: the values sent on the terminal notifier (term), the *)
(* values sent to each stop-waiter (got), the calls the last handler made  *)
(* on Service Managers (calls), what the last handler returned (ret), and  *)
(* which handler ran last (last).                                          *)
(***************************************************************************)
EXTENDS Integers, Sequences, FiniteSets, Bags, TLC

\* ---------------------------------------------------------------- bounds
\* number of services in the configuration
NumServices == 2
\* number of calls of the public stop()
MaxStopCalls == 2
\* number of worker pids that may exit
MaxChildren == 2
\* number of inputs (signals, queued commands) waiting to be processed
MaxPending == 2
\* number of Process slots
NumProcs == 2
\* number of events (frames, timer fires, parent commands) given to the slots
MaxSteps == 3
\* the last second of the clock
MaxTime == 2
\* number of frames written to the two pipes, by the worker and the parent
MaxFrames == 2
\* number of reads from the pipe, and the largest partial read in bytes
MaxReads == 4
MaxChunk == 3
\* the longest cfgerror text, besides the one that fills a frame
MaxText == 1

\* ------------------------------------------------------------- constants
WORKER_TIMEOUT == 98
WORKER_INIT_FAILED == 99
WORKER_BOOT_FAILED == 100

\* the configured services' names, and one name that is not configured
ServiceNames == 1..NumServices
Names == 1..(NumServices + 1)
Pids == 1..MaxChildren
Waiters == 1..MaxStopCalls

State == {"Starting", "Running", "Stopping"}
Command == {"Stop", "Quit", "Reload", "ReapWorkers"}
Signals == {"SIGHUP", "SIGTERM", "SIGINT", "SIGQUIT", "SIGCHLD"}

\* the exit codes and signals a reaped child is modelled to report (i8 codes)
ExitCodes == {1, WORKER_INIT_FAILED}
KillSignals == {9}
WaitStatus ==
    [kind : {"Exited"}, val : ExitCodes] \cup [kind : {"Signaled"}, val : KillSignals]

\* ------------------------------------------------------- ProcessError
\* from with the match arms of 99 and 100 exchanged
ProcessError_from_swapped(code) ==
    CASE code = WORKER_TIMEOUT -> [err |-> "StartupTimeout"]
      [] code = WORKER_INIT_FAILED -> [err |-> "BootFailed"]
      [] code = WORKER_BOOT_FAILED -> [err |-> "InitFailed"]
      [] OTHER -> [err |-> "ExitCode", code |-> code]

ProcessError_from(code) ==
    CASE code = WORKER_TIMEOUT -> [err |-> "StartupTimeout"]
      [] code = WORKER_INIT_FAILED -> [err |-> "InitFailed"]
      [] code = WORKER_BOOT_FAILED -> [err |-> "BootFailed"]
      [] OTHER -> [err |-> "ExitCode", code |-> code]

\* the error the reaper builds from a wait status
StatusError(st) ==
    IF st.kind = "Exited" THEN ProcessError_from(st.val)
    ELSE [err |-> "Signal", sig |-> st.val]

\* ------------------------------------------------------ Service Manager
ServiceState == {"Starting", "Running", "Reloading", "Stopping", "Stopped", "Failed"}

is_stopped(s) == s \in {"Stopped", "Failed"}

\* stop(graceful, reason): refused when already terminal, else Stopping
SrvStop(s) ==
    IF is_stopped(s) THEN [res |-> "Err", state |-> s]
    ELSE [res |-> "Ok", state |-> "Stopping"]

\* start_service(): joins when Running or Starting, starts when terminal
SrvStart(s) ==
    CASE s \in {"Running", "Starting"} -> [res |-> "Ok", state |-> s]
      [] s \in {"Stopped", "Failed"} -> [res |-> "Ok", state |-> "Starting"]
      [] OTHER -> [res |-> "Err", err |-> s, state |-> s]

\* reload(graceful): rolling replacement from Running, joins when Reloading
SrvReload(s) ==
    CASE s \in {"Running", "Reloading"} -> [res |-> "Ok", state |-> "Reloading"]
      [] OTHER -> [res |-> "Err", err |-> s, state |-> s]

\* pause() and resume(): pass-through to the slots of a running service
SrvPause(s) ==
    IF s = "Running" THEN [res |-> "Ok", state |-> s]
    ELSE [res |-> "Err", err |-> s, state |-> s]

SrvResume(s) ==
    IF s = "Running" THEN [res |-> "Ok", state |-> s]
    ELSE [res |-> "Err", err |-> s, state |-> s]

\* what a service can do on its own: finish starting or reloading, or fail
SrvProgress(s) ==
    IF s \in {"Starting", "Reloading"} THEN {"Running", "Failed"} ELSE {}

\* ---------------------------------------------------------------- state
VARIABLES
    state,          \* CommandCenter.state
    stop,           \* CommandCenter.stop: "Some" until taken, then "None"
    stop_waiters,   \* CommandCenter.stop_waiters: the Vec of waiter ids
    services,       \* CommandCenter.services: name -> service state
    cmd_rx,         \* number of Command::Stop items queued on tx
    sig_pending,    \* signals delivered and not yet turned into a call
    zombies,        \* pid -> wait status of the exited, unreaped children
    conts,          \* per service: the shutdown continuation spawned for it
    done,           \* the CommandCenterCommands task has returned Ready
    issued,         \* number of notifiers the public stop() has returned
    term,           \* values sent on the terminal notifier, in order
    got,            \* waiter id -> number of values sent to it
    exits,          \* the causes of the calls of exit, in order
    calls,          \* bag of the calls the last handler made on services
    ret,            \* what the last public operation returned
    last,           \* the last handler that ran: [op, arg]
    procs,          \* slot -> the Process supervisor of that slot (Part II)
    now,            \* the clock read by Instant::now(), in seconds
    psteps,         \* number of events the supervisors have been given
    pout,           \* what the last Process handler emitted, in order
    plast,          \* the last Process handler that ran: [idx, op, arg]
    from_in,        \* the exit code last given to ProcessError::from
    from_out,       \* what ProcessError::from returned for it
    written,        \* the messages the worker has framed onto the pipe
    pipe,           \* the bytes on the pipe, not yet read by the parent
    src,            \* the decoder's buffer (the BytesMut given to decode)
    items,          \* what decode has returned so far: messages, then Err
    reads,          \* number of reads that moved bytes from the pipe to src
    dlast,          \* the last call of decode: its result and the buffer's length
    dst,            \* the encoder's buffer
    encoded         \* the commands encode has been given

\* the Command Center, the Process supervisors, and the pure functions' inputs
ccvars == <<state, stop, stop_waiters, services, cmd_rx, sig_pending, zombies, conts,
            done, issued, term, got, exits, calls, ret, last>>
pvars == <<procs, now, psteps, pout, plast>>
xvars == <<from_in, from_out>>
cvars == <<written, pipe, src, items, reads, dlast, dst, encoded>>

vars == <<ccvars, pvars, xvars, cvars>>

NoRet == [tag |-> "None"]
EmptyMap == [x \in {} |-> x]

\* the CommandCenter and what its handlers can change, as one record
CC ==
    [state |-> state, stop |-> stop, stop_waiters |-> stop_waiters,
     services |-> services, conts |-> conts, term |-> term, got |-> got,
     exits |-> exits, zombies |-> zombies, done |-> done,
     calls |-> EmptyBag, ret |-> NoRet]

Commit(c) ==
    /\ state' = c.state
    /\ stop' = c.stop
    /\ stop_waiters' = c.stop_waiters
    /\ services' = c.services
    /\ conts' = c.conts
    /\ term' = c.term
    /\ got' = c.got
    /\ exits' = c.exits
    /\ zombies' = c.zombies
    /\ done' = c.done
    /\ calls' = c.calls
    /\ ret' = c.ret
    /\ UNCHANGED <<pvars, xvars, cvars>>

\* one call of a Service Manager method, as logged in calls
Called(c, call) == [c EXCEPT !.calls = @ (+) SetToBag({call})]

Cause(c, why) == [c EXCEPT !.exits = Append(@, why)]

\* which handler ran: its name, the command and where it came from (a signal
\* or "tx"), the service name and the graceful flag it was given
L(op, cmd, from, name, graceful) ==
    [op |-> op, cmd |-> cmd, from |-> from, name |-> name, graceful |-> graceful]

\* ------------------------------------------------- Process (the record)
\* Part II: the Process supervisor of src/src/process.rs.  A Process is a
\* record of its fields idx, pid, state and hb, the status of its task
\* ("none" before Process::start, "nofork" when the fork failed, "run",
\* "ended" once ctx.stop() or ctx.terminate() has run, "dropped" once the
\* actor has been dropped), the timers its context holds (kind -> number
\* pending), and two histories: the ProcessLoaded and ProcessFailed events
\* sent upward (up) and the signals sent to its pid (sigs).  When a pending
\* timer fires is left to the interleaving.
Slots == 1..NumProcs
ProcessState == {"Starting", "Failed", "Running", "Stopping"}
TimerKinds == {"StartupTimeout", "StopTimeout", "Heartbeat", "Kill"}
WorkerMessage == {"forked", "loaded", "hb", "reload", "restart", "cfgerror"}
WorkerCommand == {"prepare", "start", "pause", "resume", "stop", "hb"}

\* the seconds of a heartbeat tick, and the service's heartbeat-miss timeout
HEARTBEAT == 2
cfg_timeout == 1

\* the i8 exit codes
I8 == (-128)..127

NoTimers == [k \in TimerKinds |-> 0]
NoProcess(i) ==
    [idx |-> i, pid |-> 0, state |-> "Starting", hb |-> 0, task |-> "none",
     timers |-> NoTimers, up |-> <<>>, sigs |-> <<>>, out |-> <<>>]

ProcessInit ==
    /\ procs = [i \in Slots |-> NoProcess(i)]
    /\ now = 0
    /\ psteps = 0
    /\ pout = <<>>
    /\ plast = [idx |-> 0, op |-> "new", arg |-> "-"]

FromInit ==
    /\ from_in = 0
    /\ from_out = [err |-> "None"]

CodecInit ==
    /\ written = <<>>
    /\ pipe = <<>>
    /\ src = <<>>
    /\ items = <<>>
    /\ reads = 0
    /\ dlast = [tag |-> "-", len |-> 0]
    /\ dst = <<>>
    /\ encoded = <<>>

Init ==
    /\ ProcessInit
    /\ FromInit
    /\ CodecInit
    /\ state = "Starting"
    /\ stop = "Some"
    /\ stop_waiters = <<>>
    /\ services = EmptyMap
    /\ cmd_rx = 0
    /\ sig_pending = {}
    /\ zombies = EmptyMap
    /\ conts = [s \in ServiceNames |-> "none"]
    /\ done = FALSE
    /\ issued = 0
    /\ term = <<>>
    /\ got = [w \in Waiters |-> 0]
    /\ exits = <<>>
    /\ calls = EmptyBag
    /\ ret = NoRet
    /\ last = L("new", "-", "-", 0, FALSE)

\* ------------------------------------------------ CommandCenter (public)
NotReady == [tag |-> "Err", err |-> "NotReady"]
UnknownService == [tag |-> "Err", err |-> "UnknownService"]
ServiceStopped == [tag |-> "Err", err |-> "ServiceStopped"]
Service(e) == [tag |-> "Err", err |-> "Service", inner |-> e]
Ok(v) == [tag |-> "Ok", val |-> v]

Known(c, name) == name \in DOMAIN c.services

\* exit that sends on the notifier without taking it
exit_resend(c, success) ==
    [c EXCEPT
        !.got = [w \in Waiters |->
                    @[w] + Cardinality({i \in DOMAIN c.stop_waiters : c.stop_waiters[i] = w})],
        !.stop_waiters = <<>>,
        !.term = Append(@, success),
        !.stop = "None"]

\* fn exit(&mut self, success): every waiter popped gets true; the terminal
\* notifier is taken out of its Option and sent success
exit(c, success) ==
    [c EXCEPT
        !.got = [w \in Waiters |->
                    @[w] + Cardinality({i \in DOMAIN c.stop_waiters : c.stop_waiters[i] = w})],
        !.stop_waiters = <<>>,
        !.term = IF c.stop = "Some" THEN Append(@, success) ELSE @,
        !.stop = "None"]

service_status(c, name) ==
    IF c.state = "Running"
    THEN IF Known(c, name)
         THEN [Called(c, [srv |-> name, op |-> "status"])
                  EXCEPT !.ret = Ok(c.services[name])]
         ELSE [c EXCEPT !.ret = UnknownService]
    ELSE [c EXCEPT !.ret = NotReady]

service_worker_pids(c, name) ==
    IF c.state = "Running"
    THEN IF Known(c, name)
         THEN [Called(c, [srv |-> name, op |-> "pids"]) EXCEPT !.ret = Ok("pids")]
         ELSE [c EXCEPT !.ret = UnknownService]
    ELSE [c EXCEPT !.ret = NotReady]

start_service(c, name) ==
    IF c.state = "Running"
    THEN IF Known(c, name)
         THEN LET r == SrvStart(c.services[name])
                  c1 == [Called(c, [srv |-> name, op |-> "start_service"])
                            EXCEPT !.services[name] = r.state]
              IN  IF r.res = "Ok" THEN [c1 EXCEPT !.ret = Ok("rx")]
                  ELSE [c1 EXCEPT !.ret = Service(r.err)]
         ELSE [c EXCEPT !.ret = UnknownService]
    ELSE [c EXCEPT !.ret = NotReady]

stop_service(c, name, graceful) ==
    IF c.state = "Running"
    THEN IF Known(c, name)
         THEN LET r == SrvStop(c.services[name])
                  c1 == [Called(c, [srv |-> name, op |-> "stop", graceful |-> graceful,
                                    reason |-> "ConsoleRequest"])
                            EXCEPT !.services[name] = r.state]
              IN  IF r.res = "Ok" THEN [c1 EXCEPT !.ret = Ok("rx")]
                  ELSE [c1 EXCEPT !.ret = ServiceStopped]
         ELSE [c EXCEPT !.ret = UnknownService]
    ELSE [c EXCEPT !.ret = NotReady]

\* reload_service reporting a refusal the way stop_service does
reload_service_stopped(c, name, graceful) ==
    IF c.state = "Running"
    THEN IF Known(c, name)
         THEN LET r == SrvReload(c.services[name])
                  c1 == [Called(c, [srv |-> name, op |-> "reload", graceful |-> graceful])
                            EXCEPT !.services[name] = r.state]
              IN  IF r.res = "Ok" THEN [c1 EXCEPT !.ret = Ok("rx")]
                  ELSE [c1 EXCEPT !.ret = ServiceStopped]
         ELSE [c EXCEPT !.ret = UnknownService]
    ELSE [c EXCEPT !.ret = NotReady]

reload_service(c, name, graceful) ==
    IF c.state = "Running"
    THEN IF Known(c, name)
         THEN LET r == SrvReload(c.services[name])
                  c1 == [Called(c, [srv |-> name, op |-> "reload", graceful |-> graceful])
                            EXCEPT !.services[name] = r.state]
              IN  IF r.res = "Ok" THEN [c1 EXCEPT !.ret = Ok("rx")]
                  ELSE [c1 EXCEPT !.ret = Service(r.err)]
         ELSE [c EXCEPT !.ret = UnknownService]
    ELSE [c EXCEPT !.ret = NotReady]

\* pause_service without its test of the state
pause_service_ungated(c, name) ==
    IF Known(c, name)
    THEN LET r == SrvPause(c.services[name])
             c1 == [Called(c, [srv |-> name, op |-> "pause"])
                       EXCEPT !.services[name] = r.state]
         IN  IF r.res = "Ok" THEN [c1 EXCEPT !.ret = Ok("unit")]
             ELSE [c1 EXCEPT !.ret = Service(r.err)]
    ELSE [c EXCEPT !.ret = UnknownService]

pause_service(c, name) ==
    IF c.state = "Running"
    THEN IF Known(c, name)
         THEN LET r == SrvPause(c.services[name])
                  c1 == [Called(c, [srv |-> name, op |-> "pause"])
                            EXCEPT !.services[name] = r.state]
              IN  IF r.res = "Ok" THEN [c1 EXCEPT !.ret = Ok("unit")]
                  ELSE [c1 EXCEPT !.ret = Service(r.err)]
         ELSE [c EXCEPT !.ret = UnknownService]
    ELSE [c EXCEPT !.ret = NotReady]

resume_service(c, name) ==
    IF c.state = "Running"
    THEN IF Known(c, name)
         THEN LET r == SrvResume(c.services[name])
                  c1 == [Called(c, [srv |-> name, op |-> "resume"])
                            EXCEPT !.services[name] = r.state]
              IN  IF r.res = "Ok" THEN [c1 EXCEPT !.ret = Ok("unit")]
                  ELSE [c1 EXCEPT !.ret = Service(r.err)]
         ELSE [c EXCEPT !.ret = UnknownService]
    ELSE [c EXCEPT !.ret = NotReady]

\* one iteration of `for srv in self.services.values()` of reload_all
ReloadOne(c, s) ==
    [Called(c, [srv |-> s, op |-> "reload", graceful |-> TRUE])
        EXCEPT !.services[s] = SrvReload(c.services[s]).state]

RECURSIVE ReloadEach(_, _)
ReloadEach(c, todo) ==
    IF todo = {} THEN c
    ELSE LET s == CHOOSE x \in todo : TRUE
         IN  ReloadEach(ReloadOne(c, s), todo \ {s})

\* reload_all without its test of the state
reload_all_any_state(c) == ReloadEach(c, DOMAIN c.services)

reload_all(c) ==
    IF c.state = "Running" THEN ReloadEach(c, DOMAIN c.services) ELSE c

\* --------------------------------------------- CommandCenterCommands
\* init_signals with SIGINT subscribed as a graceful stop
SignalCommand_int_stop(sig) ==
    CASE sig = "SIGHUP" -> "Reload"
      [] sig = "SIGTERM" -> "Stop"
      [] sig = "SIGINT" -> "Stop"
      [] sig = "SIGQUIT" -> "Quit"
      [] sig = "SIGCHLD" -> "ReapWorkers"

\* init_signals: the command each subscribed signal is mapped to
SignalCommand(sig) ==
    CASE sig = "SIGHUP" -> "Reload"
      [] sig = "SIGTERM" -> "Stop"
      [] sig = "SIGINT" -> "Quit"
      [] sig = "SIGQUIT" -> "Quit"
      [] sig = "SIGCHLD" -> "ReapWorkers"

\* Service::start: every configured service is started and inserted
start(c) ==
    [c EXCEPT !.services = [s \in ServiceNames |-> "Starting"], !.state = "Running"]

\* one iteration of `for service in st.services.values()` of stop: on Ok the
\* continuation is spawned and `waiting` is set
StopOne(lp, s, graceful) ==
    LET c == lp.c
        r == SrvStop(c.services[s])
        c1 == [Called(c, [srv |-> s, op |-> "stop", graceful |-> graceful,
                          reason |-> "Exit"])
                  EXCEPT !.services[s] = r.state]
    IN  IF r.res = "Ok"
        THEN [c |-> [c1 EXCEPT !.conts[s] = "waiting"], waiting |-> TRUE]
        ELSE [c |-> c1, waiting |-> lp.waiting]

RECURSIVE StopEach(_, _, _)
StopEach(lp, todo, graceful) ==
    IF todo = {} THEN lp
    ELSE LET s == CHOOSE x \in todo : TRUE
         IN  StopEach(StopOne(lp, s, graceful), todo \ {s}, graceful)

\* the global shutdown without its test of the state
stop_unguarded(c, graceful) ==
    LET lp == StopEach([c |-> [c EXCEPT !.state = "Stopping"], waiting |-> FALSE],
                       DOMAIN c.services, graceful)
    IN  IF ~lp.waiting THEN Cause(exit(lp.c, TRUE), "nowait") ELSE lp.c

\* fn stop(&self, st, ctx, graceful): the global shutdown
CommandCenterCommands_stop(c, graceful) ==
    IF c.state # "Stopping"
    THEN LET lp == StopEach([c |-> [c EXCEPT !.state = "Stopping"], waiting |-> FALSE],
                            DOMAIN c.services, graceful)
         IN  IF ~lp.waiting THEN Cause(exit(lp.c, TRUE), "nowait") ELSE lp.c
    ELSE c

\* the continuation exiting only when its own check finds a service running
Continuation_never_exits(c, s) == [c EXCEPT !.conts[s] = "ran"]

\* the continuation exiting without looking at the services
Continuation_no_recheck(c, s) == Cause(exit([c EXCEPT !.conts[s] = "ran"], TRUE), "cont")

\* the continuation spawned for service s, run once its completion has fired
Continuation(c, s) ==
    LET c1 == [c EXCEPT !.conts[s] = "ran"]
    IN  IF \E x \in DOMAIN c.services : ~is_stopped(c.services[x])
        THEN c1
        ELSE Cause(exit(c1, TRUE), "cont")

\* every service is told of one reaped child
NotifyExited(c, pid, err) ==
    [c EXCEPT !.calls = @ (+) SetToBag({[srv |-> s, op |-> "exited", pid |-> pid,
                                         err |-> err] : s \in DOMAIN c.services})]

\* the loop leaving after the first child (break for continue)
ReapWorkers_once(c) ==
    IF DOMAIN c.zombies = {} THEN c
    ELSE LET pid == CHOOSE p \in DOMAIN c.zombies : TRUE
             rest == [p \in DOMAIN c.zombies \ {pid} |-> c.zombies[p]]
         IN  NotifyExited([c EXCEPT !.zombies = rest], pid, StatusError(c.zombies[pid]))

\* the waitpid(None, WNOHANG) loop: it goes on while a child is reported
RECURSIVE ReapWorkers(_)
ReapWorkers(c) ==
    IF DOMAIN c.zombies = {} THEN c
    ELSE LET pid == CHOOSE p \in DOMAIN c.zombies : TRUE
             rest == [p \in DOMAIN c.zombies \ {pid} |-> c.zombies[p]]
         IN  ReapWorkers(NotifyExited([c EXCEPT !.zombies = rest], pid,
                                      StatusError(c.zombies[pid])))

\* Service::finished: the command stream has ended
finished(c) == [Cause(exit(c, TRUE), "finished") EXCEPT !.done = TRUE]

\* call that reports an Err item as a success
call_err_success(c, cmd) ==
    CASE cmd = "Stop" -> CommandCenterCommands_stop(c, TRUE)
      [] cmd = "Quit" -> CommandCenterCommands_stop(c, FALSE)
      [] cmd = "Reload" -> reload_all(c)
      [] cmd = "ReapWorkers" -> ReapWorkers(c)
      [] cmd = "Err" -> [Cause(exit(c, TRUE), "err") EXCEPT !.done = TRUE]

\* Service::call, for Ok(cmd) and for Err(())
call(c, cmd) ==
    CASE cmd = "Stop" -> CommandCenterCommands_stop(c, TRUE)
      [] cmd = "Quit" -> CommandCenterCommands_stop(c, FALSE)
      [] cmd = "Reload" -> reload_all(c)
      [] cmd = "ReapWorkers" -> ReapWorkers(c)
      [] cmd = "Err" -> [Cause(exit(c, FALSE), "err") EXCEPT !.done = TRUE]

\* pub fn stop(&mut self): a new waiter is pushed and Stop is sent on tx
CommandCenter_stop(c, w) == [c EXCEPT !.stop_waiters = Append(@, w), !.ret = Ok(w)]

\* --------------------------------------------------------------- actions
Pending == Cardinality(sig_pending) + cmd_rx
Started == state # "Starting"

Start ==
    /\ ~Started /\ ~done
    /\ Commit(start(CC))
    /\ last' = L("start", "-", "-", 0, FALSE)
    /\ UNCHANGED <<cmd_rx, sig_pending, issued>>

\* the operating system delivers a subscribed signal
DeliverSignal ==
    \E sig \in Signals :
        /\ Started /\ ~done
        /\ sig \notin sig_pending
        /\ Pending < MaxPending
        /\ sig_pending' = sig_pending \cup {sig}
        /\ Commit(CC)
        /\ last' = L("signal", "-", sig, 0, FALSE)
        /\ UNCHANGED <<cmd_rx, issued>>

\* a worker exits: it stays a zombie until reaped, and SIGCHLD is raised
ChildExit ==
    \E pid \in Pids \ DOMAIN zombies, st \in WaitStatus :
        /\ Started
        /\ Commit([CC EXCEPT !.zombies = [p \in DOMAIN zombies \cup {pid} |->
                                            IF p = pid THEN st ELSE zombies[p]]])
        /\ sig_pending' = IF done THEN sig_pending ELSE sig_pending \cup {"SIGCHLD"}
        /\ last' = L("child_exit", "-", "-", pid, FALSE)
        /\ UNCHANGED <<cmd_rx, issued>>

PublicStop ==
    /\ issued < MaxStopCalls
    /\ Pending < MaxPending
    /\ Commit(CommandCenter_stop(CC, issued + 1))
    /\ issued' = issued + 1
    /\ cmd_rx' = cmd_rx + 1
    /\ last' = L("stop", "-", "-", 0, FALSE)
    /\ UNCHANGED sig_pending

\* the task takes the next item of the queue of tx
CallQueued ==
    /\ Started /\ ~done
    /\ cmd_rx > 0
    /\ Commit(call(CC, "Stop"))
    /\ cmd_rx' = cmd_rx - 1
    /\ last' = L("call", "Stop", "tx", 0, FALSE)
    /\ UNCHANGED <<sig_pending, issued>>

\* the task takes the next item of a signal stream
CallSignal ==
    \E sig \in sig_pending :
        /\ Started /\ ~done
        /\ Commit(call(CC, SignalCommand(sig)))
        /\ sig_pending' = sig_pending \ {sig}
        /\ last' = L("call", SignalCommand(sig), sig, 0, FALSE)
        /\ UNCHANGED <<cmd_rx, issued>>

\* a stream yields an error item
CallError ==
    /\ Started /\ ~done
    /\ Commit(call(CC, "Err"))
    /\ last' = L("call", "Err", "-", 0, FALSE)
    /\ UNCHANGED <<cmd_rx, sig_pending, issued>>

StreamFinished ==
    /\ Started /\ ~done
    /\ Commit(finished(CC))
    /\ last' = L("finished", "-", "-", 0, FALSE)
    /\ UNCHANGED <<cmd_rx, sig_pending, issued>>

\* a service finishes starting or reloading, or fails
ServiceProgress ==
    \E s \in DOMAIN services :
        \E to \in SrvProgress(services[s]) :
            /\ Commit([CC EXCEPT !.services[s] = to])
            /\ last' = L("service_progress", "-", "-", s, FALSE)
            /\ UNCHANGED <<cmd_rx, sig_pending, issued>>

\* a stopping service has stopped: its completion fires
ServiceStopped_fires(s) ==
    /\ s \in DOMAIN services
    /\ services[s] = "Stopping"
    /\ Commit([CC EXCEPT !.services[s] = "Stopped",
                         !.conts[s] = IF @ = "waiting" THEN "ready" ELSE @])
    /\ last' = L("service_stopped", "-", "-", s, FALSE)
    /\ UNCHANGED <<cmd_rx, sig_pending, issued>>

\* the task polls the continuation of service s, whose completion has fired
RunContinuation(s) ==
    /\ ~done
    /\ conts[s] = "ready"
    /\ Commit(Continuation(CC, s))
    /\ last' = L("continuation", "-", "-", s, FALSE)
    /\ UNCHANGED <<cmd_rx, sig_pending, issued>>

Frame == UNCHANGED <<cmd_rx, sig_pending, issued>>

Do_service_status ==
    \E name \in Names :
        /\ Commit(service_status(CC, name))
        /\ last' = L("service_status", "-", "-", name, FALSE) /\ Frame

Do_service_worker_pids ==
    \E name \in Names :
        /\ Commit(service_worker_pids(CC, name))
        /\ last' = L("service_worker_pids", "-", "-", name, FALSE) /\ Frame

Do_start_service ==
    \E name \in Names :
        /\ Commit(start_service(CC, name))
        /\ last' = L("start_service", "-", "-", name, FALSE) /\ Frame

Do_stop_service ==
    \E name \in Names, graceful \in BOOLEAN :
        /\ Commit(stop_service(CC, name, graceful))
        /\ last' = L("stop_service", "-", "-", name, graceful) /\ Frame

Do_reload_service ==
    \E name \in Names, graceful \in BOOLEAN :
        /\ Commit(reload_service(CC, name, graceful))
        /\ last' = L("reload_service", "-", "-", name, graceful) /\ Frame

Do_pause_service ==
    \E name \in Names :
        /\ Commit(pause_service(CC, name))
        /\ last' = L("pause_service", "-", "-", name, FALSE) /\ Frame

Do_resume_service ==
    \E name \in Names :
        /\ Commit(resume_service(CC, name))
        /\ last' = L("resume_service", "-", "-", name, FALSE) /\ Frame

Do_reload_all ==
    /\ Commit(reload_all(CC))
    /\ last' = L("reload_all", "-", "-", 0, FALSE) /\ Frame

\* the supervisor under signals, the public stop() and reload_all()
Next ==
    \/ Start
    \/ DeliverSignal
    \/ ChildExit
    \/ PublicStop
    \/ CallQueued
    \/ CallSignal
    \/ CallError
    \/ StreamFinished
    \/ ServiceProgress
    \/ \E s \in ServiceNames : ServiceStopped_fires(s)
    \/ \E s \in ServiceNames : RunContinuation(s)
    \/ Do_reload_all

Spec == Init /\ [][Next]_vars

\* the supervisor with a console client calling the per-service operations
NextConsole ==
    \/ Start
    \/ DeliverSignal
    \/ CallSignal
    \/ PublicStop
    \/ CallQueued
    \/ CallError
    \/ StreamFinished
    \/ Do_reload_all
    \/ ServiceProgress
    \/ \E s \in ServiceNames : ServiceStopped_fires(s)
    \/ \E s \in ServiceNames : RunContinuation(s)
    \/ Do_service_status
    \/ Do_service_worker_pids
    \/ Do_start_service
    \/ Do_stop_service
    \/ Do_reload_service
    \/ Do_pause_service
    \/ Do_resume_service

ConsoleSpec == Init /\ [][NextConsole]_vars

\* the supervisor under signals and the public stop(), no child exiting
NextShutdown ==
    \/ Start
    \/ DeliverSignal
    \/ PublicStop
    \/ CallQueued
    \/ CallSignal
    \/ CallError
    \/ StreamFinished
    \/ ServiceProgress
    \/ \E s \in ServiceNames : ServiceStopped_fires(s)
    \/ \E s \in ServiceNames : RunContinuation(s)

\* the task is polled while it has something to do, and every service that
\* is stopping does stop
FairSpec ==
    /\ Init /\ [][NextShutdown]_vars
    /\ WF_vars(Start)
    /\ WF_vars(CallQueued)
    /\ WF_vars(CallSignal)
    /\ \A s \in ServiceNames : WF_vars(ServiceStopped_fires(s))
    /\ \A s \in ServiceNames : WF_vars(RunContinuation(s))


\* ------------------------------------------------- Process (the code)
\* the pid the fork of slot i returns
ProcPid(i) == 100 + i

\* what a handler emits: an event sent upward (addr.send), a signal sent to
\* the pid (kill), a command written to the worker (ctx.send), a timer armed
\* each with the idx and pid it carries
Emit(p, k, v, e) ==
    [p EXCEPT !.out = Append(@, [k |-> k, v |-> v, e |-> e, idx |-> p.idx, pid |-> p.pid])]

\* self.addr.send(service::...): ProcessLoaded and ProcessFailed are kept in up
SendUp(p, msg, e) ==
    IF msg \in {"ProcessLoaded", "ProcessFailed"}
    THEN [Emit(p, "up", msg, e) EXCEPT !.up = Append(@, [msg |-> msg, err |-> e])]
    ELSE Emit(p, "up", msg, e)

\* kill(self.pid, sig)
SendSignal(p, sig) == [Emit(p, "sig", sig, "-") EXCEPT !.sigs = Append(@, sig)]

\* ctx.send(cmd)
SendToWorker(p, cmd) == Emit(p, "cmd", cmd, "-")

\* ctx.add_future(Timeout::new(..).map(|_| kind))
AddTimer(p, kind) == [Emit(p, "timer", kind, "-") EXCEPT !.timers[kind] = @ + 1]

\* ctx.stop() and ctx.terminate(): the task handles nothing after them
ctx_stop(p) == [p EXCEPT !.task = "ended"]
ctx_terminate(p) == [p EXCEPT !.task = "ended"]

\* start that goes on to create the supervisor after a failed fork
Process_start_always_task(i, fork_ok, t) ==
    IF ~fork_ok
    THEN AddTimer(SendUp([NoProcess(i) EXCEPT !.pid = -1, !.hb = t, !.task = "run"],
                         "ProcessFailed", "FailedToStart"),
                  "StartupTimeout")
    ELSE AddTimer([NoProcess(i) EXCEPT !.pid = ProcPid(i), !.state = "Starting",
                                       !.hb = t, !.task = "run"],
                  "StartupTimeout")

\* Process::start: fork, then the supervisor task with its startup timer
Process_start(i, fork_ok, t) ==
    IF ~fork_ok
    THEN SendUp([NoProcess(i) EXCEPT !.pid = -1, !.task = "nofork"],
                "ProcessFailed", "FailedToStart")
    ELSE AddTimer([NoProcess(i) EXCEPT !.pid = ProcPid(i), !.state = "Starting",
                                       !.hb = t, !.task = "run"],
                  "StartupTimeout")

\* kill that sends SIGQUIT where the code sends SIGKILL
kill_quit(p, graceful) ==
    IF graceful THEN AddTimer(p, "Kill")
    ELSE ctx_terminate(SendSignal(p, "SIGQUIT"))

\* fn kill(&self, ctx, graceful)
kill(p, graceful) ==
    IF graceful THEN AddTimer(p, "Kill")
    ELSE ctx_terminate(SendSignal(p, "SIGKILL"))

\* Drop that sends nothing
drop_silent(p) == [p EXCEPT !.task = "dropped", !.timers = NoTimers]

\* impl Drop for Process; the context and its timers go with the actor
drop(p) == [SendSignal(p, "SIGKILL") EXCEPT !.task = "dropped", !.timers = NoTimers]

\* error that takes the graceful path of kill
Process_error_graceful(p) == kill(SendSignal(p, "SIGQUIT"), TRUE)

\* StreamHandler::finished (pipe EOF) and Handler::error (pipe or codec error)
Process_finished(p) == kill(p, FALSE)
Process_error(p) == kill(p, FALSE)
\* loaded that does not look at the state
handle_loaded_any_state(p, t) ==
    AddTimer([SendUp(p, "ProcessLoaded", "-") EXCEPT !.state = "Running", !.hb = t],
             "Heartbeat")

\* loaded that leaves hb at the time of the fork
handle_loaded_stale_hb(p, t) ==
    IF p.state = "Starting"
    THEN AddTimer([SendUp(p, "ProcessLoaded", "-") EXCEPT !.state = "Running"],
                  "Heartbeat")
    ELSE p

\* handle, WorkerMessage::loaded
handle_loaded(p, t) ==
    IF p.state = "Starting"
    THEN AddTimer([SendUp(p, "ProcessLoaded", "-") EXCEPT !.state = "Running", !.hb = t],
                  "Heartbeat")
    ELSE p

\* StartupTimeout that reports the failure and leaves the Process as it is
handle_StartupTimeout_report_only(p) ==
    IF p.state = "Starting"
    THEN SendUp(p, "ProcessFailed", "StartupTimeout")
    ELSE p

\* StartupTimeout that does not look at the state
handle_StartupTimeout_any_state(p) ==
    ctx_stop(SendSignal([SendUp(p, "ProcessFailed", "StartupTimeout")
                           EXCEPT !.state = "Failed"], "SIGKILL"))

\* handle, ProcessMessage::StartupTimeout
handle_StartupTimeout(p) ==
    IF p.state = "Starting"
    THEN ctx_stop(SendSignal([SendUp(p, "ProcessFailed", "StartupTimeout")
                                EXCEPT !.state = "Failed"], "SIGKILL"))
    ELSE p

\* StopTimeout that kills without entering Failed or stopping the task
handle_StopTimeout_no_stop(p) ==
    IF p.state = "Stopping"
    THEN SendSignal(SendUp(p, "ProcessFailed", "StopTimeout"), "SIGKILL")
    ELSE p

\* handle, ProcessMessage::StopTimeout
handle_StopTimeout(p) ==
    IF p.state = "Stopping"
    THEN ctx_stop(SendSignal([SendUp(p, "ProcessFailed", "StopTimeout")
                                EXCEPT !.state = "Failed"], "SIGKILL"))
    ELSE p

\* Heartbeat that compares with >= where the code compares with >
handle_Heartbeat_ge(p, t) ==
    IF p.state = "Running"
    THEN IF t - p.hb >= cfg_timeout
         THEN SendUp(p, "ProcessFailed", "Heartbeat")
         ELSE AddTimer(SendToWorker(p, "hb"), "Heartbeat")
    ELSE p

\* Heartbeat that re-arms the tick before it looks at hb, and again after
handle_Heartbeat_double_arm(p, t) ==
    IF p.state = "Running"
    THEN IF t - p.hb > cfg_timeout
         THEN SendUp(AddTimer(p, "Heartbeat"), "ProcessFailed", "Heartbeat")
         ELSE AddTimer(SendToWorker(AddTimer(p, "Heartbeat"), "hb"), "Heartbeat")
    ELSE p

\* handle, ProcessMessage::Heartbeat
handle_Heartbeat(p, t) ==
    IF p.state = "Running"
    THEN IF t - p.hb > cfg_timeout
         THEN SendUp(p, "ProcessFailed", "Heartbeat")
         ELSE AddTimer(SendToWorker(p, "hb"), "Heartbeat")
    ELSE p

\* Handler<ProcessMessage>::handle, msg a worker message or a timer item
handle(p, msg, t) ==
    CASE msg = "forked" -> SendToWorker(p, "prepare")
      [] msg = "loaded" -> handle_loaded(p, t)
      [] msg = "hb" -> [p EXCEPT !.hb = t]
      [] msg = "reload" -> SendUp(p, "ProcessMessage", "reload")
      [] msg = "restart" -> SendUp(p, "ProcessMessage", "restart")
      [] msg = "cfgerror" -> SendUp(p, "ProcessFailed", "ConfigError")
      [] msg = "StartupTimeout" -> handle_StartupTimeout(p)
      [] msg = "StopTimeout" -> handle_StopTimeout(p)
      [] msg = "Heartbeat" -> handle_Heartbeat(p, t)
      [] msg = "Kill" -> ctx_stop(SendSignal(p, "SIGKILL"))

\* the handlers of the parent's commands
SendCommand_handle(p, cmd) == SendToWorker(p, cmd)
StartProcess_handle(p) == SendToWorker(p, "start")
PauseProcess_handle(p) == SendToWorker(p, "pause")
ResumeProcess_handle(p) == SendToWorker(p, "resume")

\* StopProcess that sends SIGTERM before it writes the stop command
StopProcess_handle_signal_first(p, timer_ok) ==
    IF p.state = "Running"
    THEN AddTimer(SendToWorker(SendSignal([p EXCEPT !.state = "Stopping"], "SIGTERM"),
                               "stop"), "StopTimeout")
    ELSE ctx_terminate(SendSignal(p, "SIGQUIT"))

\* StopProcess that enters Stopping without arming the StopTimeout timer
StopProcess_handle_no_timer(p, timer_ok) ==
    IF p.state = "Running"
    THEN SendSignal([SendToWorker(p, "stop") EXCEPT !.state = "Stopping"], "SIGTERM")
    ELSE ctx_terminate(SendSignal(p, "SIGQUIT"))

\* Handler<StopProcess>::handle; timer_ok: Timeout::new returned Ok
StopProcess_handle(p, timer_ok) ==
    IF p.state = "Running"
    THEN IF timer_ok
         THEN SendSignal(AddTimer([SendToWorker(p, "stop") EXCEPT !.state = "Stopping"],
                                  "StopTimeout"), "SIGTERM")
         ELSE ctx_terminate(SendSignal([SendToWorker(p, "stop")
                                          EXCEPT !.state = "Stopping"], "SIGQUIT"))
    ELSE ctx_terminate(SendSignal(p, "SIGQUIT"))

\* QuitProcess whose graceful arm only signals, scheduling no Kill
QuitProcess_handle_no_kill(p, graceful) ==
    IF graceful
    THEN SendSignal(p, "SIGQUIT")
    ELSE ctx_terminate(SendSignal(kill(p, FALSE), "SIGKILL"))

\* Handler<QuitProcess>::handle
QuitProcess_handle(p, graceful) ==
    IF graceful
    THEN kill(SendSignal(p, "SIGQUIT"), TRUE)
    ELSE ctx_terminate(SendSignal(kill(p, FALSE), "SIGKILL"))

\* ------------------------------------------------ Process (the actions)
\* Timeout::new in StopProcess: it fails only when the reactor is gone, and
\* the handlers run on the reactor (every other call site unwraps it)
TimeoutNew == {TRUE}

Live(i) == procs[i].task = "run"

\* the handler of slot i has run and left q
PCommit(i, q, op, arg) ==
    /\ procs' = [procs EXCEPT ![i] = [q EXCEPT !.out = <<>>]]
    /\ pout' = q.out
    /\ plast' = [idx |-> i, op |-> op, arg |-> arg]
    /\ UNCHANGED <<now, ccvars, xvars, cvars>>

\* the Service Manager fills a slot
ProcessStart ==
    \E i \in Slots, fork_ok \in BOOLEAN :
        /\ procs[i].task = "none"
        /\ PCommit(i, Process_start(i, fork_ok, now), "start",
                   IF fork_ok THEN "forked" ELSE "fork failed")
        /\ UNCHANGED psteps

\* a frame of the worker is decoded and handled
PipeFrame ==
    \E i \in Slots, m \in WorkerMessage :
        /\ Live(i) /\ psteps < MaxSteps
        /\ PCommit(i, handle(procs[i], m, now), "handle", m)
        /\ psteps' = psteps + 1

\* a pending timer k of slot i fires and its item is handled
TimerFire(i, k) ==
    /\ Live(i) /\ procs[i].timers[k] > 0
    /\ PCommit(i, handle([procs[i] EXCEPT !.timers[k] = @ - 1], k, now), "handle", k)
    /\ UNCHANGED psteps

TimerFires == \E i \in Slots, k \in TimerKinds : TimerFire(i, k)

\* the worker's end of the pipe is closed
PipeEOF ==
    \E i \in Slots :
        /\ Live(i)
        /\ PCommit(i, Process_finished(procs[i]), "finished", "-")
        /\ UNCHANGED psteps

\* reading the pipe fails, or a frame's payload is not a WorkerMessage
PipeError ==
    \E i \in Slots :
        /\ Live(i)
        /\ PCommit(i, Process_error(procs[i]), "error", "-")
        /\ UNCHANGED psteps

Do_SendCommand ==
    \E i \in Slots, cmd \in WorkerCommand :
        /\ Live(i) /\ psteps < MaxSteps
        /\ PCommit(i, SendCommand_handle(procs[i], cmd), "SendCommand", cmd)
        /\ psteps' = psteps + 1

Do_StartProcess ==
    \E i \in Slots :
        /\ Live(i) /\ psteps < MaxSteps
        /\ PCommit(i, StartProcess_handle(procs[i]), "StartProcess", "-")
        /\ psteps' = psteps + 1

Do_PauseProcess ==
    \E i \in Slots :
        /\ Live(i) /\ psteps < MaxSteps
        /\ PCommit(i, PauseProcess_handle(procs[i]), "PauseProcess", "-")
        /\ psteps' = psteps + 1

Do_ResumeProcess ==
    \E i \in Slots :
        /\ Live(i) /\ psteps < MaxSteps
        /\ PCommit(i, ResumeProcess_handle(procs[i]), "ResumeProcess", "-")
        /\ psteps' = psteps + 1

Do_StopProcess ==
    \E i \in Slots, timer_ok \in TimeoutNew :
        /\ Live(i) /\ psteps < MaxSteps
        /\ PCommit(i, StopProcess_handle(procs[i], timer_ok), "StopProcess", "-")
        /\ psteps' = psteps + 1

Do_QuitProcess ==
    \E i \in Slots, graceful \in BOOLEAN :
        /\ Live(i) /\ psteps < MaxSteps
        /\ PCommit(i, QuitProcess_handle(procs[i], graceful), "QuitProcess",
                   IF graceful THEN "graceful" ELSE "now")
        /\ psteps' = psteps + 1

\* the actor of an ended task is dropped
DropProcess ==
    \E i \in Slots :
        /\ procs[i].task = "ended"
        /\ PCommit(i, drop(procs[i]), "drop", "-")
        /\ UNCHANGED psteps

\* a second passes
Tick ==
    /\ now < MaxTime
    /\ now' = now + 1
    /\ UNCHANGED <<procs, psteps, pout, plast, ccvars, xvars, cvars>>

\* the Process supervisors under frames, timers and the parent's commands
NextProcess ==
    \/ ProcessStart
    \/ PipeFrame
    \/ TimerFires
    \/ PipeEOF
    \/ PipeError
    \/ Do_SendCommand
    \/ Do_StartProcess
    \/ Do_PauseProcess
    \/ Do_ResumeProcess
    \/ Do_StopProcess
    \/ Do_QuitProcess
    \/ DropProcess
    \/ Tick

ProcessSpec == Init /\ [][NextProcess]_vars

\* the reactor fires a pending Kill timer of a live task
ProcessFairSpec ==
    /\ Init /\ [][NextProcess]_vars
    /\ \A i \in Slots : WF_vars(TimerFire(i, "Kill"))

\* --------------------------------------------------- TransportCodec
\* Part III: the codec of src/src/process.rs.  A buffer (BytesMut, &[u8],
\* String) is a sequence of bytes, kept as its runs: a sequence of records
\* [b, n], n >= 1 copies of byte b, no two neighbours with the same b, so
\* that equal buffers are equal values.  The JSON texts of the messages
\* (worker.rs, serde) are taken from the specification's wire protocol:
\* {"tag":null} for a message without argument, {"cfgerror":"text"} for
\* cfgerror.
U16 == 65536

RECURSIVE BLen(_)
\* the number of bytes of a buffer
BLen(r) == IF r = <<>> THEN 0 ELSE r[1].n + BLen(Tail(r))

\* the buffer a followed by the buffer b (extend, put)
BCat(a, b) ==
    IF a = <<>> THEN b
    ELSE IF b = <<>> THEN a
    ELSE IF a[Len(a)].b = b[1].b
         THEN SubSeq(a, 1, Len(a) - 1) \o <<[b |-> b[1].b, n |-> a[Len(a)].n + b[1].n]>>
                \o Tail(b)
         ELSE a \o b

RECURSIVE BTake(_, _)
\* the first k bytes of a buffer (what split_to(k) returns)
BTake(r, k) ==
    IF k <= 0 \/ r = <<>> THEN <<>>
    ELSE IF r[1].n <= k THEN <<r[1]>> \o BTake(Tail(r), k - r[1].n)
         ELSE <<[b |-> r[1].b, n |-> k]>>

RECURSIVE BDrop(_, _)
\* a buffer without its first k bytes (what split_to(k) leaves)
BDrop(r, k) ==
    IF k <= 0 \/ r = <<>> THEN r
    ELSE IF r[1].n <= k THEN BDrop(Tail(r), k - r[1].n)
         ELSE <<[b |-> r[1].b, n |-> r[1].n - k]>> \o Tail(r)

\* byte i of a buffer
BAt(r, i) == BTake(BDrop(r, i - 1), 1)[1].b

RECURSIVE BSeq(_)
\* the buffer of the bytes of a sequence
BSeq(s) == IF s = <<>> THEN <<>> ELSE BCat(<<[b |-> s[1], n |-> 1]>>, BSeq(Tail(s)))

TagBytes(tag) ==
    CASE tag = "forked" -> <<102, 111, 114, 107, 101, 100>>
      [] tag = "loaded" -> <<108, 111, 97, 100, 101, 100>>
      [] tag = "hb" -> <<104, 98>>
      [] tag = "reload" -> <<114, 101, 108, 111, 97, 100>>
      [] tag = "restart" -> <<114, 101, 115, 116, 97, 114, 116>>
      [] tag = "cfgerror" -> <<99, 102, 103, 101, 114, 114, 111, 114>>
      [] tag = "prepare" -> <<112, 114, 101, 112, 97, 114, 101>>
      [] tag = "start" -> <<115, 116, 97, 114, 116>>
      [] tag = "pause" -> <<112, 97, 117, 115, 101>>
      [] tag = "resume" -> <<114, 101, 115, 117, 109, 101>>
      [] tag = "stop" -> <<115, 116, 111, 112>>

\* a message or command: its tag and, for cfgerror, its text (a buffer)
Msg(tag, text) == [tag |-> tag, text |-> text]
NoItem == Msg("-", <<>>)

\* json::to_string: {"tag":null} or {"cfgerror":"text"}
json_to_string(m) ==
    IF m.tag = "cfgerror"
    THEN BCat(BCat(BSeq(<<123, 34>> \o TagBytes(m.tag) \o <<34, 58, 34>>), m.text),
              BSeq(<<34, 125>>))
    ELSE BSeq(<<123, 34>> \o TagBytes(m.tag) \o <<34, 58, 110, 117, 108, 108, 125>>)

\* the bytes that stand for themselves inside a JSON string
PlainChar(b) == b >= 32 /\ b < 128 /\ b # 34 /\ b # 92

\* json::from_slice::<WorkerMessage>: the message whose text buf is, if any
json_from_slice(buf) ==
    LET units == {t \in WorkerMessage \ {"cfgerror"} : json_to_string(Msg(t, <<>>)) = buf}
        n == BLen(buf)
        text == BTake(BDrop(buf, 13), n - 15)
    IN  IF units # {}
        THEN [ok |-> TRUE, msg |-> Msg(CHOOSE t \in units : TRUE, <<>>)]
        ELSE IF /\ n >= 15
                /\ BTake(buf, 13) = BSeq(<<123, 34>> \o TagBytes("cfgerror") \o <<34, 58, 34>>)
                /\ BDrop(buf, n - 2) = BSeq(<<34, 125>>)
                /\ \A k \in DOMAIN text : PlainChar(text[k].b)
             THEN [ok |-> TRUE, msg |-> Msg("cfgerror", text)]
             ELSE [ok |-> FALSE, msg |-> NoItem]

\* dst.put_u16::<BigEndian>(n as u16)
put_u16(n) == BSeq(<<(n % U16) \div 256, (n % U16) % 256>>)

\* BigEndian::read_u16(src)
read_u16(b) == BAt(b, 1) * 256 + BAt(b, 2)

\* the framing of encode with the length written low byte first
encode_bytes_le(msg_ref, d) ==
    BCat(BCat(d, BSeq(<<BLen(msg_ref) % 256, (BLen(msg_ref) % U16) \div 256>>)), msg_ref)

\* Encoder::encode after serialisation: the length, then the bytes
encode_bytes(msg_ref, d) == BCat(BCat(d, put_u16(BLen(msg_ref))), msg_ref)

\* Encoder::encode
encode(msg, d) == encode_bytes(json_to_string(msg), d)

\* decode that takes the length prefix off the buffer before it knows that
\* the payload is complete
decode_eager(b) ==
    IF BLen(b) < 2 THEN [tag |-> "None", item |-> NoItem, rest |-> b]
    ELSE LET size == read_u16(b)
         IN  IF BLen(b) >= size + 2
             THEN LET j == json_from_slice(BTake(BDrop(b, 2), size))
                  IN  [tag |-> IF j.ok THEN "Some" ELSE "Err", item |-> j.msg,
                       rest |-> BDrop(BDrop(b, 2), size)]
             ELSE [tag |-> "None", item |-> NoItem, rest |-> BDrop(b, 2)]

\* Decoder::decode: the result, the item, and what is left of the buffer
decode(b) ==
    IF BLen(b) < 2 THEN [tag |-> "None", item |-> NoItem, rest |-> b]
    ELSE LET size == read_u16(b)
         IN  IF BLen(b) >= size + 2
             THEN LET j == json_from_slice(BTake(BDrop(b, 2), size))
                  IN  [tag |-> IF j.ok THEN "Some" ELSE "Err", item |-> j.msg,
                       rest |-> BDrop(BDrop(b, 2), size)]
             ELSE [tag |-> "None", item |-> NoItem, rest |-> b]

\* ------------------------------------------- TransportCodec (actions)
\* the texts of cfgerror: short ones, and the one that makes the payload
\* as long as a frame can carry
Text(n) == IF n = 0 THEN <<>> ELSE <<[b |-> 120, n |-> n]>>
FullText == Text(U16 - 1 - 15)

\* what the worker writes: the messages, and payloads that are no message
WorkerFrames ==
    {Msg(t, <<>>) : t \in WorkerMessage \ {"cfgerror"}}
        \cup {Msg("cfgerror", Text(n)) : n \in 0..MaxText}
        \cup {Msg("cfgerror", FullText)}
        \cup {Msg("?", <<>>), Msg("?", BSeq(<<125>>))}

Payload(m) == IF m.tag = "?" THEN m.text ELSE json_to_string(m)

\* the worker frames a payload onto the pipe
WorkerWrites ==
    \E m \in WorkerFrames :
        /\ Len(written) + Len(encoded) < MaxFrames
        /\ written' = Append(written, m)
        /\ pipe' = encode_bytes(Payload(m), pipe)
        /\ UNCHANGED <<src, items, reads, dlast, dst, encoded, ccvars, pvars, xvars>>

\* a read moves the next k bytes of the pipe to the decoder's buffer: a few
\* bytes, all of them, or all but a few
ReadPipe ==
    \E k \in (1..MaxChunk) \cup {BLen(pipe) - j : j \in 0..MaxChunk} :
        /\ reads < MaxReads
        /\ k >= 1 /\ k <= BLen(pipe)
        /\ src' = BCat(src, BTake(pipe, k))
        /\ pipe' = BDrop(pipe, k)
        /\ reads' = reads + 1
        /\ UNCHANGED <<written, items, dlast, dst, encoded, ccvars, pvars, xvars>>

\* decode has returned an error: the stream has ended
StreamFailed == items # <<>> /\ items[Len(items)].tag = "Err"

\* the framed stream calls decode, unless an earlier call has failed
Decode ==
    /\ ~StreamFailed
    /\ LET r == decode(src)
       IN  /\ src' = r.rest
           /\ items' = IF r.tag = "None" THEN items
                       ELSE Append(items, [tag |-> r.tag, item |-> r.item])
           /\ dlast' = [tag |-> r.tag, len |-> BLen(src)]
    /\ UNCHANGED <<written, pipe, reads, dst, encoded, ccvars, pvars, xvars>>

\* a command is written to the worker
Encode ==
    \E c \in WorkerCommand :
        /\ Len(written) + Len(encoded) < MaxFrames
        /\ dst' = encode(Msg(c, <<>>), dst)
        /\ encoded' = Append(encoded, Msg(c, <<>>))
        /\ UNCHANGED <<written, pipe, src, items, reads, dlast, ccvars, pvars, xvars>>

NextCodec ==
    \/ WorkerWrites
    \/ ReadPipe
    \/ Decode
    \/ Encode

CodecSpec == Init /\ [][NextCodec]_vars

\* ------------------------------------------------ ProcessError::from
\* ProcessError::from is applied to an exit code
Apply_from ==
    \E code \in I8 :
        /\ from_in' = code
        /\ from_out' = ProcessError_from(code)
        /\ UNCHANGED <<ccvars, pvars, cvars>>

NextFrom == Apply_from

FromSpec == Init /\ [][NextFrom]_vars
\* ================================================================ claims
StopCalls(graceful) ==
    SetToBag({[srv |-> s, op |-> "stop", graceful |-> graceful, reason |-> "Exit"] :
                s \in ServiceNames})

\* C1: the terminal notifier is sent at most one value, and exactly one once
\* exit has been reached or the task has ended, however often exit is reached
C1_TerminalOnce ==
    /\ Len(term) <= 1
    /\ (exits # <<>> \/ done) => Len(term) = 1
    /\ stop = "None" <=> term # <<>>

\* exit has been reached twice, by two shutdown continuations
C1_Witness ==
    /\ Len(exits) >= 2
    /\ exits[1] = "cont" /\ exits[2] = "cont"
    /\ Len(term) = 1

\* C4: the terminal notifier carries false exactly when the first exit of
\* the run came from an Err item of the command stream, and true otherwise
C4_TerminalValue ==
    term # <<>> =>
        /\ exits # <<>>
        /\ term[1] = FALSE <=> exits[1] = "err"
        /\ term[1] = TRUE <=> exits[1] \in {"cont", "nowait", "finished"}

\* an Err item is processed after a clean shutdown has fired the notifier
C4_Witness ==
    /\ Len(exits) >= 2
    /\ exits[Len(exits)] = "err"
    /\ term = <<TRUE>>

\* the notifier carries false
C4_WitnessFalse == term = <<FALSE>> /\ exits[1] = "err"

\* C6: a Stop or Quit processed in Stopping calls no service, spawns no
\* continuation, fires no notifier and leaves the state Stopping; and the
\* state never leaves Stopping
C6_StoppingNoOp ==
    [][/\ (last'.op = "call" /\ last'.cmd \in {"Stop", "Quit"} /\ state = "Stopping") =>
             /\ calls' = EmptyBag
             /\ services' = services
             /\ conts' = conts
             /\ term' = term /\ stop' = stop
             /\ got' = got /\ stop_waiters' = stop_waiters
             /\ exits' = exits
       /\ state = "Stopping" => state' = "Stopping"]_vars

\* a Stop or Quit was processed and stopped no service
C6_Witness ==
    /\ last.op = "call" /\ last.cmd \in {"Stop", "Quit"}
    /\ state = "Stopping"
    /\ calls = EmptyBag
    /\ stop_waiters # <<>>

\* C5 as stated: SIGINT and SIGQUIT stop every service non-gracefully and
\* SIGTERM gracefully, whatever was processed before
C5_Original ==
    (last.op = "call" /\ last.from \in {"SIGINT", "SIGQUIT", "SIGTERM"}) =>
        /\ last.cmd = (IF last.from = "SIGTERM" THEN "Stop" ELSE "Quit")
        /\ calls = StopCalls(last.from = "SIGTERM")

\* C5, amended: SIGINT and SIGQUIT become Quit and SIGTERM becomes Stop; the
\* command processed while the state is not Stopping calls stop(graceful,
\* Exit) on every service once, with graceful false for Quit and true for
\* Stop, and enters Stopping; processed in Stopping it stops no service
C5_SignalShutdown ==
    [][(last'.op = "call" /\ last'.from \in {"SIGINT", "SIGQUIT", "SIGTERM"}) =>
          /\ last'.cmd = (IF last'.from = "SIGTERM" THEN "Stop" ELSE "Quit")
          /\ state # "Stopping" =>
                (calls' = StopCalls(last'.from = "SIGTERM") /\ state' = "Stopping")
          /\ state = "Stopping" => calls' = EmptyBag]_vars

\* SIGQUIT has been processed and every service was stopped non-gracefully
C5_Witness ==
    /\ last.op = "call" /\ last.from = "SIGQUIT"
    /\ calls = StopCalls(FALSE)
    /\ state = "Stopping"

ReloadCalls ==
    SetToBag({[srv |-> s, op |-> "reload", graceful |-> TRUE] : s \in ServiceNames})

\* C9: processing Reload (or calling reload_all) changes neither the state
\* nor any notifier nor the task; in Running every service gets
\* reload(true) once, whatever it answers, and otherwise no service is called
C9_ReloadNeverFatal ==
    [][((last'.op = "call" /\ last'.cmd = "Reload") \/ last'.op = "reload_all") =>
          /\ state' = state
          /\ term' = term /\ stop' = stop
          /\ got' = got /\ stop_waiters' = stop_waiters
          /\ exits' = exits /\ done' = done
          /\ conts' = conts
          /\ state = "Running" => calls' = ReloadCalls
          /\ state # "Running" => (calls' = EmptyBag /\ services' = services)]_vars

\* SIGHUP was processed in Running with a service that refuses the reload
C9_Witness ==
    /\ last.op = "call" /\ last.cmd = "Reload" /\ last.from = "SIGHUP"
    /\ calls = ReloadCalls
    /\ state = "Running"
    /\ \E s \in ServiceNames : services[s] = "Failed"
    /\ \E s \in ServiceNames : services[s] = "Reloading"

\* the calls of exited that the reaper owes for the children now exited
ExitedCalls ==
    SetToBag({[srv |-> s, op |-> "exited", pid |-> p, err |-> StatusError(zombies[p])] :
                s \in DOMAIN services, p \in DOMAIN zombies})

\* C10: one ReapWorkers reaps every exited child: each service gets
\* exited(pid, err) once for each of them, with the error of that child's
\* status, no child is left, and the state of the center does not change
C10_ReapDrains ==
    [][(last'.op = "call" /\ last'.cmd = "ReapWorkers") =>
          /\ calls' = ExitedCalls
          /\ DOMAIN zombies' = {}
          /\ state' = state
          /\ term' = term /\ got' = got /\ done' = done]_vars

\* two children were reaped by one ReapWorkers while the center is Stopping
C10_Witness ==
    /\ last.op = "call" /\ last.cmd = "ReapWorkers"
    /\ state = "Stopping"
    /\ BagCardinality(calls) >= NumServices + NumServices
    /\ \E s \in ServiceNames :
          BagIn([srv |-> s, op |-> "exited", pid |-> MaxChildren,
                 err |-> [err |-> "InitFailed"]], calls)

PerServiceOps ==
    {"service_status", "service_worker_pids", "start_service", "stop_service",
     "reload_service", "pause_service", "resume_service"}

\* C7: a per-service operation called outside Running returns NotReady for
\* every name and calls no service; called in Running with a name that is
\* not a service it returns UnknownService and calls no service
C7_GatedOnRunning ==
    [][last'.op \in PerServiceOps =>
          /\ state' = state
          /\ state # "Running" =>
                (ret' = NotReady /\ calls' = EmptyBag /\ services' = services)
          /\ (state = "Running" /\ last'.name \notin DOMAIN services) =>
                (ret' = UnknownService /\ calls' = EmptyBag /\ services' = services)
          /\ (state = "Running" /\ last'.name \in DOMAIN services) =>
                (ret' # NotReady /\ ret' # UnknownService /\ calls' # EmptyBag)]_vars

\* a known service is refused while the center is Stopping
C7_Witness ==
    /\ last.op \in PerServiceOps
    /\ last.name \in ServiceNames
    /\ state = "Stopping"
    /\ ret = NotReady

\* the answer of the Service Manager method behind a per-service operation
SrvAnswer(op, s) ==
    CASE op = "start_service" -> SrvStart(s)
      [] op = "stop_service" -> SrvStop(s)
      [] op = "reload_service" -> SrvReload(s)
      [] op = "pause_service" -> SrvPause(s)
      [] op = "resume_service" -> SrvResume(s)

Refused(op, name) ==
    /\ state = "Running"
    /\ name \in DOMAIN services
    /\ SrvAnswer(op, services[name]).res = "Err"

\* C8 as stated: each of the five operations reports a refusal of the
\* Service Manager as CommandError::Service
C8_Original ==
    [][\A op \in {"start_service", "stop_service", "reload_service", "pause_service",
                  "resume_service"} :
          (last'.op = op /\ Refused(op, last'.name)) =>
              (ret'.tag = "Err" /\ ret'.err = "Service")]_vars

\* C8, amended: start_service, reload_service, pause_service and
\* resume_service report a refusal of the Service Manager as
\* CommandError::Service(err) with the error of the Service Manager;
\* stop_service reports it as CommandError::ServiceStopped
C8_ErrorsPropagated ==
    [][/\ \A op \in {"start_service", "reload_service", "pause_service", "resume_service"} :
            (last'.op = op /\ Refused(op, last'.name)) =>
                ret' = Service(SrvAnswer(op, services[last'.name]).err)
       /\ (last'.op = "stop_service" /\ Refused("stop_service", last'.name)) =>
                ret' = ServiceStopped]_vars

\* a reload was refused by a service that is stopping
C8_Witness ==
    /\ last.op = "reload_service"
    /\ state = "Running"
    /\ ret = Service("Stopping")

\* a Stop was processed while the center was Running
GracefulStopBegun ==
    /\ last.op = "call" /\ last.cmd = "Stop"
    /\ calls = StopCalls(TRUE)

\* C2 as stated: once Stop has been processed in Running, and with every
\* stopping service stopping in the end, the terminal notifier gets true
C2_Original == GracefulStopBegun ~> (term = <<TRUE>>)

\* C2, amended: a Stop processed in Running calls stop(true, Exit) on every
\* service; with every stopping service stopping in the end, the terminal
\* notifier then gets a value, which is true unless an Err item of the
\* command stream was processed before the shutdown completed
C2_GracefulShutdown ==
    /\ [][(last'.op = "call" /\ last'.cmd = "Stop" /\ state = "Running") =>
             (calls' = StopCalls(TRUE) /\ state' = "Stopping")]_vars
    /\ GracefulStopBegun ~> (term = <<TRUE>> \/ (term = <<FALSE>> /\ exits[1] = "err"))
    /\ [](term = <<FALSE>> => exits[1] = "err")

\* the shutdown has completed through the continuation of the last service
C2_Witness ==
    /\ term = <<TRUE>>
    /\ exits = <<"cont">>
    /\ last.op = "continuation"
    /\ \A s \in ServiceNames : services[s] = "Stopped"

\* C3 as stated: every notifier returned by stop() is sent a value in the
\* end, and never two
C3_Original ==
    \A w \in Waiters :
        /\ (issued >= w) ~> (got[w] = 1)
        /\ [](got[w] <= 1)


\* C11: ProcessError::from maps 98 to StartupTimeout, 99 to InitFailed, 100
\* to BootFailed and every other i8 code n to ExitCode(n) carrying n itself
C11_ReservedCodes ==
    from_out.err # "None" =>
        from_out = CASE from_in = 98 -> [err |-> "StartupTimeout"]
                     [] from_in = 99 -> [err |-> "InitFailed"]
                     [] from_in = 100 -> [err |-> "BootFailed"]
                     [] OTHER -> [err |-> "ExitCode", code |-> from_in]

\* the function has been applied to the neighbour of a reserved code
C11_Witness == from_in = 101 /\ from_out = [err |-> "ExitCode", code |-> 101]

\* the number of events msg (with error e, or any error when e is "*") that
\* slot i has sent upward
Sent(i, msg, e) ==
    Cardinality({n \in DOMAIN procs[i].up :
                    /\ procs[i].up[n].msg = msg
                    /\ (e = "*" \/ procs[i].up[n].err = e)})

Forked(i) == procs[i].task \in {"run", "ended", "dropped"}
Over(i) == procs[i].task \in {"ended", "dropped"}

\* C12 as stated: an incarnation never shows both ProcessLoaded and
\* ProcessFailed, and shows exactly one of them once its task has ended
C12_Original ==
    \A i \in Slots :
        Forked(i) =>
            /\ Sent(i, "ProcessLoaded", "*") + Sent(i, "ProcessFailed", "*") <= 1
            /\ Over(i) => Sent(i, "ProcessLoaded", "*") + Sent(i, "ProcessFailed", "*") = 1

\* C12: an incarnation sends ProcessLoaded at most once and at most one
\* timeout failure, and never both ProcessLoaded and the StartupTimeout failure
C12_LoadedOnce ==
    \A i \in Slots :
        Forked(i) =>
            /\ Sent(i, "ProcessLoaded", "*") <= 1
            /\ Sent(i, "ProcessFailed", "StartupTimeout")
                 + Sent(i, "ProcessFailed", "StopTimeout") <= 1
            /\ Sent(i, "ProcessLoaded", "*") + Sent(i, "ProcessFailed", "StartupTimeout") <= 1

\* an incarnation that was loaded and later failed to stop in time
C12_Witness ==
    \E i \in Slots :
        /\ Over(i)
        /\ procs[i].up = <<[msg |-> "ProcessLoaded", err |-> "-"],
                           [msg |-> "ProcessFailed", err |-> "StopTimeout"]>>

\* an emission of slot i, as the handlers log it
Out(i, k, v, e) == [k |-> k, v |-> v, e |-> e, idx |-> i, pid |-> ProcPid(i)]

\* the handler that has just run is the one of item arg, on slot i
Handled(i, arg) == plast'.idx = i /\ plast'.op = "handle" /\ plast'.arg = arg

\* C13: a live Process in Starting still has its startup timer pending, the
\* timer armed at construction; and the timer firing in Starting sends
\* ProcessFailed(idx, pid, StartupTimeout), enters Failed, sends SIGKILL and
\* stops the task
C13_StartupBounded ==
    /\ [](\A i \in Slots :
            (Live(i) /\ procs[i].state = "Starting") => procs[i].timers["StartupTimeout"] = 1)
    /\ [][\A i \in Slots :
            /\ (plast'.idx = i /\ plast'.op = "start" /\ plast'.arg = "forked") =>
                    pout' = <<Out(i, "timer", "StartupTimeout", "-")>>
            /\ (Handled(i, "StartupTimeout") /\ Live(i) /\ procs[i].state = "Starting") =>
                    /\ pout' = <<Out(i, "up", "ProcessFailed", "StartupTimeout"),
                                 Out(i, "sig", "SIGKILL", "-")>>
                    /\ procs'[i].state = "Failed"
                    /\ procs'[i].task = "ended"]_vars

\* the startup timer has fired on a Process that was still Starting
C13_Witness ==
    \E i \in Slots :
        /\ plast = [idx |-> i, op |-> "handle", arg |-> "StartupTimeout"]
        /\ procs[i].state = "Failed" /\ procs[i].task = "ended"
        /\ procs[i].sigs = <<"SIGKILL">>

C16_DropKills ==
    \A i \in Slots :
        procs[i].task = "dropped" =>
            /\ procs[i].sigs # <<>>
            /\ procs[i].sigs[Len(procs[i].sigs)] = "SIGKILL"
            /\ (plast.idx = i /\ plast.op = "drop") => pout = <<Out(i, "sig", "SIGKILL", "-")>>

\* a supervisor ended by StopProcess while Starting has been destroyed: the
\* only SIGKILL is the one of the drop
C16_Witness ==
    \E i \in Slots :
        /\ procs[i].task = "dropped"
        /\ procs[i].state = "Starting"
        /\ procs[i].sigs = <<"SIGQUIT", "SIGKILL">>

\* C19: a loaded frame handled in Starting sends ProcessLoaded(idx, pid),
\* enters Running, sets hb to now and arms one Heartbeat timer; handled in
\* any other state it changes nothing and emits nothing; so ProcessLoaded is
\* sent at most once per incarnation
C19_LoadedOnlyInStarting ==
    /\ [](\A i \in Slots : Sent(i, "ProcessLoaded", "*") <= 1)
    /\ [][\A i \in Slots :
            (Handled(i, "loaded") /\ psteps' = psteps + 1) =>
                IF procs[i].state = "Starting"
                THEN /\ pout' = <<Out(i, "up", "ProcessLoaded", "-"),
                                  Out(i, "timer", "Heartbeat", "-")>>
                     /\ procs'[i] = [procs[i] EXCEPT
                                        !.state = "Running", !.hb = now,
                                        !.timers["Heartbeat"] = 1,
                                        !.up = Append(@, [msg |-> "ProcessLoaded",
                                                          err |-> "-"])]
                ELSE pout' = <<>> /\ procs'[i] = procs[i]]_vars

\* a second loaded frame has been handled, by a Process already Running,
\* after the clock has moved on from the first
C19_Witness ==
    \E i \in Slots :
        /\ plast = [idx |-> i, op |-> "handle", arg |-> "loaded"]
        /\ procs[i].state = "Running"
        /\ pout = <<>>
        /\ procs[i].hb < now
        /\ Sent(i, "ProcessLoaded", "*") = 1

\* C20: a Heartbeat tick handled in Running, when more than the heartbeat
\* timeout has passed since hb, sends ProcessFailed(idx, pid, Heartbeat) and
\* changes nothing else (no state change, no signal, no timer); otherwise it
\* writes the hb command and re-arms the tick; handled in any other state it
\* emits nothing and arms nothing
C20_HeartbeatTick ==
    [][\A i \in Slots :
        (Handled(i, "Heartbeat") /\ now' = now) =>
            LET fired == [procs[i] EXCEPT !.timers["Heartbeat"] = @ - 1]
            IN  IF procs[i].state = "Running"
                THEN IF now - procs[i].hb > cfg_timeout
                     THEN /\ pout' = <<Out(i, "up", "ProcessFailed", "Heartbeat")>>
                          /\ procs'[i] = [fired EXCEPT
                                            !.up = Append(@, [msg |-> "ProcessFailed",
                                                              err |-> "Heartbeat"])]
                     ELSE /\ pout' = <<Out(i, "cmd", "hb", "-"),
                                       Out(i, "timer", "Heartbeat", "-")>>
                          /\ procs'[i] = procs[i]
                ELSE pout' = <<>> /\ procs'[i] = fired]_vars

\* a tick has found the heartbeat overdue: the failure is reported and the
\* Process is still Running, its task alive, no signal sent
C20_Witness ==
    \E i \in Slots :
        /\ plast = [idx |-> i, op |-> "handle", arg |-> "Heartbeat"]
        /\ pout = <<Out(i, "up", "ProcessFailed", "Heartbeat")>>
        /\ procs[i].state = "Running" /\ procs[i].task = "run"
        /\ procs[i].sigs = <<>>
        /\ procs[i].timers["Heartbeat"] = 0

\* a frame as the wire protocol defines it: the payload's length as two
\* bytes, high byte first, then the payload
FrameOf(payload) ==
    BCat(BSeq(<<BLen(payload) \div 256, BLen(payload) % 256>>), payload)

RECURSIVE FramesOf(_)
FramesOf(ms) ==
    IF ms = <<>> THEN <<>> ELSE BCat(FrameOf(Payload(ms[1])), FramesOf(Tail(ms)))

\* what decode is to return for a written payload
Expect(m) ==
    IF m.tag = "?" THEN [tag |-> "Err", item |-> NoItem] ELSE [tag |-> "Some", item |-> m]

\* C17: every payload (none longer than 65535 bytes, one exactly that long)
\* goes onto the wire as its big-endian 2-byte length and then its bytes;
\* however the stream is cut into reads, decode returns the written
\* messages in order, and the frames decoded, the buffer and the bytes not
\* yet read always add up to the stream written: nothing lost or duplicated
C17_FramingRoundTrip ==
    /\ \A k \in DOMAIN written : BLen(Payload(written[k])) <= 65535
    /\ dst = FramesOf(encoded)
    /\ Len(items) <= Len(written)
    /\ \A k \in DOMAIN items : items[k] = Expect(written[k])
    /\ BCat(BCat(FramesOf(SubSeq(written, 1, Len(items))), src), pipe) = FramesOf(written)
    /\ (pipe = <<>> /\ src = <<>>) => Len(items) = Len(written)

\* a payload of exactly 65535 bytes and a second frame have been read in
\* four pieces and both decoded
C17_Witness ==
    /\ Len(written) = 2
    /\ BLen(Payload(written[1])) = 65535
    /\ reads = 4
    /\ pipe = <<>> /\ src = <<>>
    /\ Len(items) = 2 /\ items[1].tag = "Some" /\ items[2].tag = "Some"

\* a step of decode: no write and no read, and decode's buffer, output or
\* last result has changed
DecodeStep ==
    /\ pipe' = pipe /\ written' = written /\ encoded' = encoded
    /\ src' # src \/ items' # items \/ dlast' # dlast

\* the buffer holds a complete frame
HoldsFrame(b) == IF BLen(b) < 2 THEN FALSE ELSE BLen(b) >= 2 + read_u16(b)

\* C18: decode on a buffer of fewer than 2 bytes, or of fewer than 2+N
\* bytes for its length prefix N, returns None and leaves the buffer as it
\* is; on a buffer of at least 2+N bytes it consumes exactly the first 2+N
\* bytes and leaves the rest
C18_DecodeIncomplete ==
    [][DecodeStep =>
        IF HoldsFrame(src)
        THEN /\ dlast'.tag \in {"Some", "Err"}
             /\ src' = BDrop(src, 2 + read_u16(src))
             /\ BLen(src') = BLen(src) - (2 + read_u16(src))
             /\ Len(items') = Len(items) + 1
        ELSE /\ dlast'.tag = "None"
             /\ src' = src
             /\ items' = items]_vars

\* decode has returned None on a length prefix with a part of its payload,
\* and the buffer still holds all of it
C18_Witness ==
    /\ dlast.tag = "None"
    /\ dlast.len = BLen(src)
    /\ BLen(src) > 2
    /\ BLen(src) < 2 + read_u16(src)

\* the handler that has just run belongs to slot i: a step of slot i that is
\* not the clock's
StepOf(i) == plast'.idx = i /\ now' = now

\* slot i has written the hb command in the step
WritesHb(i) == \E n \in DOMAIN pout' : pout'[n] = Out(i, "cmd", "hb", "-")

\* C21: a Process never has more than one Heartbeat timer pending; an hb
\* command that is not a SendCommand of the parent is written only by the
\* handler of a Heartbeat timer that was pending and has fired, in Running;
\* and no handler arms more than one Heartbeat timer
C21_HeartbeatPacing ==
    /\ [](\A i \in Slots : procs[i].timers["Heartbeat"] <= 1)
    /\ [][\A i \in Slots :
            /\ (StepOf(i) /\ WritesHb(i) /\ plast'.op # "SendCommand") =>
                    /\ Handled(i, "Heartbeat")
                    /\ Live(i)
                    /\ procs[i].state = "Running"
                    /\ procs[i].timers["Heartbeat"] = 1
            /\ Cardinality({n \in DOMAIN pout' :
                              pout'[n] = Out(i, "timer", "Heartbeat", "-")}) <= 1]_vars

\* a tick has fired in time: hb was written and the one tick is armed again
C21_Witness ==
    \E i \in Slots :
        /\ plast = [idx |-> i, op |-> "handle", arg |-> "Heartbeat"]
        /\ pout = <<Out(i, "cmd", "hb", "-"), Out(i, "timer", "Heartbeat", "-")>>
        /\ procs[i].timers["Heartbeat"] = 1
        /\ procs[i].state = "Running"

\* C22: QuitProcess(true) sends SIGQUIT, arms one Kill timer and leaves the
\* state and the task as they are; the Kill timer's handler sends SIGKILL
\* and stops the task; a live task with a Kill timer pending does end;
\* QuitProcess(false) sends SIGKILL at once and terminates the task, arming
\* nothing
C22_QuitProcess ==
    /\ [][\A i \in Slots :
            /\ (StepOf(i) /\ plast'.op = "QuitProcess" /\ psteps' = psteps + 1) =>
                    IF plast'.arg = "graceful"
                    THEN /\ pout' = <<Out(i, "sig", "SIGQUIT", "-"),
                                      Out(i, "timer", "Kill", "-")>>
                         /\ procs'[i] = [procs[i] EXCEPT
                                            !.timers["Kill"] = @ + 1,
                                            !.sigs = Append(@, "SIGQUIT")]
                    ELSE /\ pout'[1] = Out(i, "sig", "SIGKILL", "-")
                         /\ \A n \in DOMAIN pout' : pout'[n] = Out(i, "sig", "SIGKILL", "-")
                         /\ procs'[i].task = "ended"
                         /\ procs'[i].timers = procs[i].timers
                         /\ procs'[i].state = procs[i].state
            /\ (Handled(i, "Kill") /\ now' = now /\ Live(i)
                    /\ procs'[i].timers["Kill"] < procs[i].timers["Kill"]) =>
                    /\ pout' = <<Out(i, "sig", "SIGKILL", "-")>>
                    /\ procs'[i].task = "ended"
                    /\ procs'[i].state = procs[i].state]_vars
    /\ \A i \in Slots : (Live(i) /\ procs[i].timers["Kill"] > 0) ~> ~Live(i)

\* a graceful quit has run its course: SIGQUIT, then the Kill timer's SIGKILL
C22_Witness ==
    \E i \in Slots :
        /\ plast = [idx |-> i, op |-> "handle", arg |-> "Kill"]
        /\ procs[i].sigs = <<"SIGQUIT", "SIGKILL">>
        /\ procs[i].task = "ended"

\* C23: the handler of a pipe EOF or of a pipe or codec error, in any state
\* of its Process, sends SIGKILL to its own pid and ends its task in the
\* same step, arming no timer and sending nothing upward; it changes no
\* other Process and nothing of the Command Center
C23_PipeFailureLocal ==
    [][\A i \in Slots :
        (StepOf(i) /\ plast'.op \in {"finished", "error"} /\ Live(i)) =>
            /\ pout' = <<Out(i, "sig", "SIGKILL", "-")>>
            /\ procs'[i] = [procs[i] EXCEPT !.task = "ended",
                                            !.sigs = Append(@, "SIGKILL")]
            /\ \A j \in Slots \ {i} : procs'[j] = procs[j]
            /\ ccvars' = ccvars]_vars

\* the pipe of a Running Process has failed while the other slot's Process
\* is alive
C23_Witness ==
    \E i, j \in Slots :
        /\ i # j
        /\ plast = [idx |-> i, op |-> "error", arg |-> "-"]
        /\ procs[i].state = "Running" /\ procs[i].task = "ended"
        /\ procs[i].sigs = <<"SIGKILL">>
        /\ procs[j].task = "run"

\* the one event of a failed start
FailedToStart(i) ==
    [k |-> "up", v |-> "ProcessFailed", e |-> "FailedToStart", idx |-> i, pid |-> -1]

\* C24: a start whose fork fails sends ProcessFailed(idx, -1, FailedToStart)
\* once and nothing else, leaves pid -1 and no supervisor task; and for that
\* slot no timer is ever armed, no signal ever sent and no further event sent
\* upward
C24_ForkFailure ==
    /\ [](\A i \in Slots :
            (procs[i].task = "nofork" \/ procs[i].pid = -1) =>
                /\ procs[i].task = "nofork" /\ procs[i].pid = -1
                /\ procs[i].up = <<[msg |-> "ProcessFailed", err |-> "FailedToStart"]>>
                /\ procs[i].timers = NoTimers
                /\ procs[i].sigs = <<>>
                /\ plast.idx = i => (plast.op = "start" /\ pout = <<FailedToStart(i)>>))
    /\ [][\A i \in Slots :
            /\ (StepOf(i) /\ plast'.op = "start" /\ plast'.arg = "fork failed") =>
                    /\ pout' = <<FailedToStart(i)>>
                    /\ procs'[i].task = "nofork"
            /\ procs[i].task = "nofork" => procs'[i] = procs[i]]_vars

\* the fork of one slot has failed and the other slot's Process has since
\* been started and killed
C24_Witness ==
    \E i, j \in Slots :
        /\ procs[i].task = "nofork" /\ procs[i].pid = -1
        /\ procs[j].task = "dropped"
        /\ plast.idx = j

\* C25: the state of a Process changes only from Starting to Running (by
\* loaded), from Running to Stopping (by StopProcess), from Starting to
\* Failed (by StartupTimeout) and from Stopping to Failed (by StopTimeout);
\* forked, hb, reload, restart, cfgerror, a Heartbeat tick, SendCommand,
\* StartProcess, PauseProcess and ResumeProcess never change it; and a step
\* into Failed ends the task
C25_StateForward ==
    [][\A i \in Slots :
        /\ procs'[i].state # procs[i].state =>
            \/ /\ procs[i].state = "Starting" /\ procs'[i].state = "Running"
               /\ Handled(i, "loaded")
            \/ /\ procs[i].state = "Running" /\ procs'[i].state = "Stopping"
               /\ plast'.idx = i /\ plast'.op = "StopProcess"
            \/ /\ procs[i].state = "Starting" /\ procs'[i].state = "Failed"
               /\ Handled(i, "StartupTimeout") /\ procs'[i].task = "ended"
            \/ /\ procs[i].state = "Stopping" /\ procs'[i].state = "Failed"
               /\ Handled(i, "StopTimeout") /\ procs'[i].task = "ended"
        /\ (/\ StepOf(i)
            /\ \/ plast'.op \in {"SendCommand", "StartProcess", "PauseProcess",
                                 "ResumeProcess"}
               \/ /\ plast'.op = "handle"
                  /\ plast'.arg \in {"forked", "hb", "reload", "restart", "cfgerror",
                                     "Heartbeat"}) =>
            /\ procs'[i].state = procs[i].state
            /\ procs'[i].task = procs[i].task]_vars

\* a Process has gone all the way: Starting, Running, Stopping, Failed
C25_Witness ==
    \E i \in Slots :
        /\ procs[i].state = "Failed"
        /\ procs[i].up = <<[msg |-> "ProcessLoaded", err |-> "-"],
                           [msg |-> "ProcessFailed", err |-> "StopTimeout"]>>
        /\ procs[i].sigs = <<"SIGTERM", "SIGKILL", "SIGKILL">>
        /\ procs[i].task = "dropped"

\* the task runs the continuation spawned for service s
ContStep(s) == conts[s] = "ready" /\ conts'[s] = "ran"

AllStopped == \A x \in DOMAIN services : is_stopped(services[x])

\* what exit(true) does to the terminal notifier and the stop-waiters
ExitsTrue ==
    /\ term' = IF stop = "Some" THEN Append(term, TRUE) ELSE term
    /\ stop' = "None"
    /\ stop_waiters' = <<>>

NoExit ==
    /\ term' = term /\ got' = got /\ exits' = exits
    /\ stop' = stop /\ stop_waiters' = stop_waiters

\* C26: a shutdown continuation looks at every service when it runs: while
\* some service is not stopped it touches neither the terminal notifier nor
\* the stop-waiters, and when all are stopped it exits with true, in
\* whatever order the completions fire; the global shutdown itself exits,
\* with true, exactly when no service accepted the stop, and otherwise
\* leaves one continuation waiting for each service that accepted
C26_ShutdownContinuation ==
    [][/\ \A s \in ServiceNames :
            ContStep(s) =>
                IF AllStopped
                THEN exits' = Append(exits, "cont") /\ ExitsTrue
                ELSE NoExit
       /\ (state # "Stopping" /\ state' = "Stopping") =>
                IF AllStopped
                THEN exits' = Append(exits, "nowait") /\ ExitsTrue /\ conts' = conts
                ELSE /\ NoExit
                     /\ \A x \in DOMAIN services :
                            ~is_stopped(services[x]) =>
                                (conts'[x] = "waiting" /\ services'[x] = "Stopping")
       /\ (exits' # exits /\ exits'[Len(exits')] = "nowait") =>
                (state # "Stopping" /\ state' = "Stopping" /\ AllStopped)]_vars

\* both continuations have run and only the later one exited: the earlier
\* one ran while the other service was still stopping
C26_Witness ==
    /\ \A s \in ServiceNames : conts[s] = "ran"
    /\ exits = <<"cont">>
    /\ term = <<TRUE>>
    /\ \E w \in Waiters : got[w] > 0
====
